---------------------------- MODULE Spec2Model ----------------------------
(***************************************************************************)
(* A model of goRecommend's ALS package (src/ALS/ALS.go): the observation  *)
(* mask, the factor initialiser, the alternating least-squares loop, the   *)
(* multi-column solver, the weighted error and the ranking layer.          *)
(*                                                                         *)
(* Numbers.  A float64 is modelled as an exact rational <<n, d>> in lowest *)
(* terms with d > 0, extended with the IEEE special values                 *)
(*     NaN = <<0, 0>>,   +Inf = <<1, 0>>,   -Inf = <<-1, 0>>               *)
(* so that 0 * Inf, Inf - Inf, 0 / 0 and every operation on NaN give NaN,  *)
(* every comparison with NaN is false, and x / 0 is an infinity.  Rounding *)
(* is not modelled and zero carries no sign.                               *)
(*                                                                         *)
(* Matrices.  A *DenseMatrix is a record [rows, cols, elements] whose      *)
(* elements are kept row-major, as MakeDenseMatrix lays them out.  A nil   *)
(* matrix is Nil.                                                          *)
(***************************************************************************)
EXTENDS Integers, Sequences, FiniteSets, TLC

VARIABLES
    Q,      \* the caller's rating matrix
    W,      \* the caller's weight matrix (ALS: its local W)
    op,     \* the operation called
    args,   \* the arguments of that call, as they were when it was made
    ret,    \* what the call returned
    pc,     \* "call" before the operation runs, then its position
    X,      \* ALS: the user-factor matrix
    Y,      \* ALS: the item-factor matrix
    i,      \* ALS: the loop counter
    hist    \* ALS: what the loop has done so far (history)

vars == <<Q, W, op, args, ret, pc, X, Y, i, hist>>

Nil == [nil |-> TRUE]

-----------------------------------------------------------------------------
(* float64 arithmetic *)

Abs(n) == IF n < 0 THEN -n ELSE n

Sign(n) == IF n > 0 THEN 1 ELSE IF n < 0 THEN -1 ELSE 0

RECURSIVE GCD(_, _)
GCD(a, b) == IF b = 0 THEN a ELSE GCD(b, a % b)

\* The rational n/d in lowest terms; n/0 is an infinity or NaN.
Norm(n, d) ==
    IF d = 0 THEN <<Sign(n), 0>>
    ELSE LET g == GCD(Abs(n), Abs(d))
             s == Sign(d)
         IN  <<(s * n) \div g, (s * d) \div g>>

F64(n) == <<n, 1>>

NA == <<0, 0>>

PosInf == <<1, 0>>

IsNaN(a) == a = NA

IsFinite(a) == a[2] # 0

Neg(a) == <<-a[1], a[2]>>

Add(a, b) ==
    IF IsNaN(a) \/ IsNaN(b) THEN NA
    ELSE IF a[2] = 0 /\ b[2] = 0 THEN (IF a = b THEN a ELSE NA)
    ELSE IF a[2] = 0 THEN a
    ELSE IF b[2] = 0 THEN b
    ELSE LET g == GCD(a[2], b[2])
             l == (a[2] \div g) * b[2]
         IN  Norm(a[1] * (l \div a[2]) + b[1] * (l \div b[2]), l)

Sub(a, b) == Add(a, Neg(b))

Mul(a, b) ==
    IF a[2] = 0 \/ b[2] = 0 THEN <<Sign(a[1]) * Sign(b[1]), 0>>
    ELSE IF a[1] = 0 \/ b[1] = 0 THEN <<0, 1>>
    ELSE LET g1 == GCD(Abs(a[1]), b[2])
             g2 == GCD(Abs(b[1]), a[2])
         IN  <<(a[1] \div g1) * (b[1] \div g2), (a[2] \div g2) * (b[2] \div g1)>>

Recip(a) ==
    IF a[1] > 0 THEN <<a[2], a[1]>>
    ELSE IF a[1] < 0 THEN <<-a[2], -a[1]>>
    ELSE IF a[2] = 0 THEN NA
    ELSE PosInf

Div(a, b) == Mul(a, Recip(b))

\* a < b; false when either is NaN.
Less(a, b) ==
    IF IsNaN(a) \/ IsNaN(b) THEN FALSE
    ELSE IF a[2] = 0 /\ b[2] = 0 THEN a[1] < b[1]
    ELSE a[1] * b[2] < b[1] * a[2]

Greater(a, b) == Less(b, a)

-----------------------------------------------------------------------------
(* The matrix package's primitives (github.com/skelterjohn/go.matrix) *)

\* (elements \o <<>> is elements, held as a sequence of values.)
MakeDenseMatrix(elements, rows, cols) ==
    [rows |-> rows, cols |-> cols, elements |-> elements \o <<>>]

\* Element (r, c), zero-based as in the package.
Get(A, r, c) == A.elements[r * A.cols + c + 1]

\* The row and the column of the n-th element (n from 1) of a matrix with
\* `cols` columns.
RowOf(n, cols) == (n - 1) \div cols

ColOf(n, cols) == (n - 1) % cols

Zeros(rows, cols) ==
    MakeDenseMatrix([n \in 1..(rows * cols) |-> F64(0)], rows, cols)

Eye(n) ==
    MakeDenseMatrix([e \in 1..(n * n) |->
        IF RowOf(e, n) = ColOf(e, n) THEN F64(1) ELSE F64(0)], n, n)

Transpose(A) ==
    MakeDenseMatrix([n \in 1..(A.rows * A.cols) |->
        Get(A, ColOf(n, A.rows), RowOf(n, A.rows))], A.cols, A.rows)

\* A.Scale(f): every element times f, in place.
Scale(A, f) ==
    MakeDenseMatrix([n \in 1..Len(A.elements) |-> Mul(A.elements[n], f)],
                    A.rows, A.cols)

SameShape(A, B) == A.rows = B.rows /\ A.cols = B.cols

\* acc + s[n] + s[n+1] + ..., added in index order.
RECURSIVE SumFrom(_, _, _)
SumFrom(s, n, acc) ==
    IF n > Len(s) THEN acc ELSE SumFrom(s, n + 1, Add(acc, s[n]))

\* A.Array(): the elements as a flat row-major slice.  The package hands out
\* the matrix's own storage when its row stride equals its row count, which
\* for the matrices built here (stride = cols) means a square matrix, and a
\* fresh copy otherwise.
Array(A) == A.elements

ArrayAliases(A) == A.cols = A.rows

\* A.TimesDense(B): the product and an error; on a shape mismatch the error
\* is set and the result is the zero matrix allocated for it.
TimesDense(A, B) ==
    IF A.cols # B.rows
    THEN [C |-> Zeros(A.rows, B.cols), err |-> TRUE]
    ELSE [C |-> MakeDenseMatrix([n \in 1..(A.rows * B.cols) |->
                    SumFrom([k \in 1..A.cols |->
                                Mul(Get(A, RowOf(n, B.cols), k - 1),
                                    Get(B, k - 1, ColOf(n, B.cols)))],
                            1, F64(0))], A.rows, B.cols),
          err |-> FALSE]

\* A.AddDense(B) and A.SubtractDense(B): A changed in place, and an error; on
\* a shape mismatch the error is set and A is left as it was.
AddDense(A, B) ==
    IF ~SameShape(A, B) THEN [A |-> A, err |-> TRUE]
    ELSE [A |-> MakeDenseMatrix([n \in 1..Len(A.elements) |->
                    Add(A.elements[n], B.elements[n])], A.rows, A.cols),
          err |-> FALSE]

SubtractDense(A, B) ==
    IF ~SameShape(A, B) THEN [A |-> A, err |-> TRUE]
    ELSE [A |-> MakeDenseMatrix([n \in 1..Len(A.elements) |->
                    Sub(A.elements[n], B.elements[n])], A.rows, A.cols),
          err |-> FALSE]

\* The square matrix A without row 0 and column c.
Minor(A, c) ==
    MakeDenseMatrix([n \in 1..((A.rows - 1) * (A.cols - 1)) |->
        LET r1 == RowOf(n, A.cols - 1) + 1
            c0 == ColOf(n, A.cols - 1)
        IN  Get(A, r1, IF c0 < c THEN c0 ELSE c0 + 1)], A.rows - 1, A.cols - 1)

\* The determinant, expanded along row 0.
RECURSIVE Det(_)
Det(A) ==
    IF A.rows = 0 THEN F64(1)
    ELSE IF A.rows = 1 THEN Get(A, 0, 0)
    ELSE SumFrom([c \in 1..A.cols |->
                    Mul(IF (c - 1) % 2 = 0 THEN Get(A, 0, c - 1)
                                           ELSE Neg(Get(A, 0, c - 1)),
                        Det(Minor(A, c - 1)))], 1, F64(0))

\* A with its column c replaced by column 0 of b.
ReplaceCol(A, c, b) ==
    MakeDenseMatrix([n \in 1..(A.rows * A.cols) |->
        IF ColOf(n, A.cols) = c THEN Get(b, RowOf(n, A.cols), 0)
                                ELSE A.elements[n]], A.rows, A.cols)

\* A.SolveDense(b): the single right-hand-side solve.  It solves A x = b for
\* column 0 of b and returns x as a column vector, with an error (and no
\* matrix) when b has not A's row count.  The value is the exact solution
\* (Cramer's rule); a singular A divides by zero and a NaN anywhere in A or
\* in the column makes every entry NaN, and no error is reported for either.
SolveDense(A, b) ==
    IF A.rows # b.rows THEN [x |-> Nil, err |-> TRUE]
    ELSE LET d == Det(A)
         IN  [x |-> MakeDenseMatrix([r \in 1..A.rows |->
                        Div(Det(ReplaceCol(A, r - 1, b)), d)], A.rows, 1),
              err |-> FALSE]

\* A.rowSlice(r): row r of A as a slice.
rowSlice(A, r) == [c \in 1..A.cols |-> Get(A, r, c - 1)]

-----------------------------------------------------------------------------
(* src/ALS/ALS.go *)

\* lambda = 0.1, the regularisation weight.
lambda == <<1, 10>>

\* A mask that tests for zero alone, without math.IsNaN.
MakeWeightMatrix_zero(mat) ==
    LET values == Array(mat)
    IN  MakeDenseMatrix([n \in 1..Len(values) |->
            IF values[n] = F64(0) THEN F64(0) ELSE F64(1)],
            mat.rows, mat.cols)

\* Create the W matrix: 0 where the rating is 0 or NaN, 1 elsewhere.
MakeWeightMatrix(mat) ==
    LET values == Array(mat)
    IN  MakeDenseMatrix([n \in 1..Len(values) |->
            IF values[n] = F64(0) \/ IsNaN(values[n]) THEN F64(0) ELSE F64(1)],
            mat.rows, mat.cols)

\* adds up all the elements of the array
SumMatrix(mat) == SumFrom(Array(mat), 1, F64(0))

\* Scales matrix mat by weight, element by element, writing into mat.Array():
\* `out` is the matrix returned (Nil when the lengths differ) and `mat` is the
\* argument afterwards, changed when Array() handed out its own storage.
SimpleTimes(mat, weight) ==
    IF Len(Array(mat)) # Len(Array(weight)) THEN [out |-> Nil, mat |-> mat]
    ELSE LET weightArray == Array(weight)
             matValues == [n \in 1..Len(Array(mat)) |->
                              Mul(weightArray[n], Array(mat)[n])]
             out == MakeDenseMatrix(matValues, mat.rows, mat.cols)
         IN  [out |-> out, mat |-> IF ArrayAliases(mat) THEN out ELSE mat]

\* Gets the error for the alternating least squares algorithm.  `sum` is the
\* value returned and `Q` is the caller's Q afterwards: SubtractDense works on
\* Q itself, and both SimpleTimes calls write through to it when Q's Array()
\* is its own storage.  With W and Q of different lengths the first
\* SimpleTimes returns nil and the second dereferences it.
GetError(Wm, Qm, Xm, Ym) ==
    LET dot  == TimesDense(Xm, Ym).C
        Q1   == SubtractDense(Qm, dot).A
        st1  == SimpleTimes(Q1, Wm)
        Prod == st1.out
    IN  IF Prod = Nil THEN [panic |-> TRUE, sum |-> NA, Q |-> Q1]
        ELSE LET st2   == SimpleTimes(Prod, Prod)
                 tosum == st2.out
             IN  [panic |-> FALSE,
                  sum   |-> SumMatrix(tosum),
                  Q     |-> IF ArrayAliases(Q1) THEN st2.mat ELSE Q1]

\* The least element of values[n..], starting from min.
RECURSIVE MinFrom(_, _, _)
MinFrom(values, n, min) ==
    IF n > Len(values) THEN min
    ELSE MinFrom(values, n + 1, IF Less(values[n], min) THEN values[n] ELSE min)

\* function to substract the minimum from all elements of the matrix; the
\* running minimum starts at 100.
MatrixMinMinus(mat) ==
    LET values == Array(mat)
        min    == MinFrom(values, 1, F64(100))
    IN  MakeDenseMatrix([n \in 1..Len(values) |-> Sub(values[n], min)],
                        mat.rows, mat.cols)

\* The greatest element of values[n..], starting from max.
RECURSIVE MaxFrom(_, _, _)
MaxFrom(values, n, max) ==
    IF n > Len(values) THEN max
    ELSE MaxFrom(values, n + 1,
                 IF Greater(values[n], max) THEN values[n] ELSE max)

\* returns the max value of the (dense)matrix; the running maximum starts at 0.
MatrixMax(mat) == MaxFrom(Array(mat), 1, F64(0))

\* The loop of argmax from position n (1-based) on, with the best index
\* (0-based) and the best value so far.
RECURSIVE ArgmaxFrom(_, _, _, _)
ArgmaxFrom(s, n, index, first) ==
    IF n > Len(s) THEN index
    ELSE IF Greater(s[n], first) THEN ArgmaxFrom(s, n + 1, n - 1, s[n])
    ELSE ArgmaxFrom(s, n + 1, index, first)

\* An argmax whose best value so far starts below zero.
argmax_below(s) == ArgmaxFrom(s, 1, 0, F64(-1))

\* returns the index of the max value of a slice
argmax(s) == ArgmaxFrom(s, 1, 0, F64(0))

\* Predict: `Qhat` is the local adjusted copy, `W` the caller's W afterwards
\* (W.Scale works on W itself) and `max_indices` the value returned, the
\* argmax of each row of the Q_hat that was passed in.
Predict(Wm, Qm, Q_hat) ==
    LET Qhat0     == MatrixMinMinus(Q_hat)
        maxRating == MatrixMax(Qm)
        qhatMax   == Div(maxRating, MatrixMax(Qhat0))
        Qhat1     == Scale(Qhat0, qhatMax)
        W1        == Scale(Wm, maxRating)
        Qhat2     == SubtractDense(Qhat1, W1).A
    IN  [Qhat        |-> Qhat2,
         W           |-> W1,
         max_indices |-> [r \in 1..Qhat2.rows |-> argmax(rowSlice(Q_hat, r - 1))]]

\* Auxilliary function for Matrix Solver: a copy of mat with columns a and b
\* exchanged (transpose, SwapRows, transpose back).
SwapCols(mat, a, b) ==
    MakeDenseMatrix([n \in 1..(mat.rows * mat.cols) |->
        LET r == RowOf(n, mat.cols)
            c == ColOf(n, mat.cols)
        IN  Get(mat, r, IF c = a THEN b ELSE IF c = b THEN a ELSE c)],
        mat.rows, mat.cols)

\* SwapRows on the transposed copy indexes past its storage when a or b is not
\* a column of mat: a run-time panic.
SwapColsPanics(mat, a, b) == a >= mat.cols \/ b >= mat.cols

\* The loop of MatrixSolver from column n on: one solve per pass, against a
\* copy of mat and with column n of outcome swapped into column 0.  `solves`
\* counts the SolveDense calls made.
RECURSIVE SolverLoop(_, _, _, _, _)
SolverLoop(mat, outcome, n, rows, solves) ==
    IF n >= mat.cols THEN [panic |-> FALSE, rows |-> rows, solves |-> solves]
    ELSE IF SwapColsPanics(outcome, 0, n)
    THEN [panic |-> TRUE, rows |-> rows, solves |-> solves]
    ELSE LET value == SolveDense(mat, SwapCols(outcome, 0, n))
         IN  IF value.x = Nil
             THEN [panic |-> TRUE, rows |-> rows, solves |-> solves + 1]
             ELSE SolverLoop(mat, outcome, n + 1, rows \o Array(value.x),
                             solves + 1)

\* solves AX = B.  The solutions are appended one after the other to `rows`
\* and the result is made of them with mat's own shape.  `M` is the matrix
\* returned (Nil after a panic).
MatrixSolver(mat, outcome) ==
    LET firstRow == SolveDense(mat, outcome)
    IN  IF firstRow.x = Nil THEN [panic |-> TRUE, M |-> Nil, solves |-> 1]
        ELSE LET loop == SolverLoop(mat, outcome, 1, Array(firstRow.x), 1)
             IN  [panic  |-> loop.panic,
                  M      |-> IF loop.panic THEN Nil
                             ELSE MakeDenseMatrix(loop.rows, mat.rows, mat.cols),
                  solves |-> loop.solves]

\* The values 5 * rand.Float64() is drawn from in the model: a few points of
\* [0, 5).
FactorVals == {F64(1), F64(2)}

\* create X and Y matrices for the ALS algorithm: every pair MakeXY can
\* return for mat and n_factors.
MakeXY(mat, n_factors) ==
    { [X |-> MakeDenseMatrix(X_data, mat.rows, n_factors),
       Y |-> MakeDenseMatrix(Y_data, n_factors, mat.cols)] :
        X_data \in [1..(mat.rows * n_factors) -> FactorVals],
        Y_data \in [1..(mat.cols * n_factors) -> FactorVals] }

\* save for later use - scaled identity matrix
ScaledEye(n_factors) == Scale(Eye(n_factors), lambda)

\* The first half of an iteration of ALS (solve for X): from Y and Q to the
\* X left in the variable, the transpose of what MatrixSolver returns.
\* `system` is the matrix handed to the solver.
SolveForX(Qm, Ym, n_factors) ==
    LET Y_dot     == AddDense(TimesDense(Ym, Transpose(Ym)).C,
                              ScaledEye(n_factors)).A
        X_toSolve == TimesDense(Ym, Transpose(Qm)).C
        solved    == MatrixSolver(Y_dot, X_toSolve)
    IN  [panic  |-> solved.panic,
         system |-> Y_dot,
         X      |-> IF solved.panic THEN Nil ELSE Transpose(solved.M)]

\* The second half (now solve for Y): from the X of the first half and Q to
\* the new Y, and X transposed back.
SolveForY(Qm, Xm, n_factors) ==
    LET X_dot     == AddDense(TimesDense(Xm, Transpose(Xm)).C,
                              ScaledEye(n_factors)).A
        Y_toSolve == TimesDense(Xm, Qm).C
        solved    == MatrixSolver(X_dot, Y_toSolve)
    IN  [panic  |-> solved.panic,
         system |-> X_dot,
         Y      |-> IF solved.panic THEN Nil ELSE Transpose(solved.M),
         X      |-> Transpose(Xm)]

\* A loop test that lets one more iteration through.
LoopContinues_le(n, iterations) == n <= iterations

\* for i := 0; i < iterations; i++
LoopContinues(n, iterations) == n < iterations

\* Q_hat, _ := X.TimesDense(Y)
Reconstruct(Xm, Ym) == TimesDense(Xm, Ym).C

-----------------------------------------------------------------------------
(* Inputs *)

\* The row and column counts of the matrices a call is given, and the ranks.
Dims == {1, 2}

\* The iteration budgets run from 0 to MaxIter.
MaxIter == 2

\* The exact arithmetic is kept within the checker's integers: a half-step
\* of ALS is taken only while every number it reads has numerator and
\* denominator within MaxNum.  A run that leaves the range is cut there, not
\* altered.
MaxNum == 60

\* The slices argmax is given have up to MaxLen elements.
MaxLen == 3

\* A caller makes up to MaxCalls calls, one after the other.
MaxCalls == 2

\* Ratings: missing (0 or NaN) and observed.
RatingVals == {F64(0), NA, F64(1)}

\* Ratings for the mask: also a negative one and one above 1.
MaskVals == {F64(0), NA, F64(1), F64(-1), F64(2)}

\* Ratings and predicted scores for the ranking layer.
ScoreVals == {F64(0), F64(1), F64(2)}

\* The elements of the slices argmax is given.
SliceVals == {F64(-1), F64(0), F64(1), F64(2), NA}

\* The elements of the systems MatrixSolver is given.
SolverVals == {F64(0), F64(1), F64(2)}

\* The ratings GetError is given: missing (NaN) and observed.
ErrorVals == {NA, F64(3)}

\* The ratings of the caller that makes several calls.
CallVals == {F64(0), F64(2)}

MatricesOf(vals, r, c) ==
    { MakeDenseMatrix(e, r, c) : e \in [1..(r * c) -> vals] }

Matrices(vals) ==
    UNION { MatricesOf(vals, r, c) : r \in Dims, c \in Dims }

InRange(A) ==
    \A n \in DOMAIN A.elements :
        Abs(A.elements[n][1]) <= MaxNum /\ A.elements[n][2] <= MaxNum

\* A system the solver cannot solve: singular, or with an entry that is not a
\* number.
Unsolvable(A) == LET d == Det(A) IN ~IsFinite(d) \/ d = F64(0)

\* ALS's local W and what its loop has done: the factors MakeXY returned
\* (until the first update), the half-steps made, whether a solve has been
\* run on an unsolvable system and the half-steps made after it.  `calls`
\* counts the caller's calls.
NoHist == [W |-> Nil, init |-> Nil, xsolves |-> 0, ysolves |-> 0,
           failed |-> FALSE, after |-> 0, calls |-> 1]

Idle ==
    /\ pc = "call" /\ ret = Nil
    /\ X = Nil /\ Y = Nil /\ i = 0
    /\ hist = NoHist

-----------------------------------------------------------------------------
(* The calls: each action is one call, or one step of ALS *)

\* The arguments of the calls on the caller's Q and W.  Every one records Q
\* and W as they were when the call was made.
MaskArgs == {[Q |-> Q, W |-> W]}

ALSArgs(budgets, ranks) ==
    { [Q |-> Q, W |-> W, iterations |-> t, n_factors |-> k] :
        t \in budgets, k \in ranks }

GetErrorArgs(ranks) ==
    UNION { { [Q |-> Q, W |-> W, X |-> x, Y |-> y] :
                x \in MatricesOf(FactorVals, Q.rows, k),
                y \in MatricesOf(FactorVals, k, Q.cols) } : k \in ranks }

PredictArgs == { [Q |-> Q, W |-> W, Q_hat |-> h] :
                    h \in MatricesOf(ScoreVals, Q.rows, Q.cols) }

CallMakeWeightMatrix ==
    /\ op = "MakeWeightMatrix" /\ pc = "call"
    /\ ret' = MakeWeightMatrix(Q)
    /\ pc' = "done"
    /\ UNCHANGED <<Q, W, op, args, X, Y, i, hist>>

CallGetError ==
    /\ op = "GetError" /\ pc = "call"
    /\ LET g == GetError(W, Q, args.X, args.Y)
       IN  /\ ret' = g.sum
           /\ Q' = g.Q
           /\ pc' = IF g.panic THEN "panic" ELSE "done"
    /\ UNCHANGED <<W, op, args, X, Y, i, hist>>

CallPredict ==
    /\ op = "Predict" /\ pc = "call"
    /\ LET p == Predict(W, Q, args.Q_hat)
       IN  /\ ret' = p.max_indices
           /\ W' = p.W
    /\ pc' = "done"
    /\ UNCHANGED <<Q, op, args, X, Y, i, hist>>

Callargmax ==
    /\ op = "argmax" /\ pc = "call"
    /\ ret' = argmax(args)
    /\ pc' = "done"
    /\ UNCHANGED <<Q, W, op, args, X, Y, i, hist>>

CallMatrixSolver ==
    /\ op = "MatrixSolver" /\ pc = "call"
    /\ ret' = MatrixSolver(args.mat, args.outcome)
    /\ pc' = IF ret'.panic THEN "panic" ELSE "done"
    /\ UNCHANGED <<Q, W, op, args, X, Y, i, hist>>

\* X, Y := MakeXY(Q, n_factors); W := MakeWeightMatrix(Q)
ALSEnter ==
    /\ op = "ALS" /\ pc = "call"
    /\ \E xy \in MakeXY(Q, args.n_factors) :
          /\ X' = xy.X
          /\ Y' = xy.Y
          /\ hist' = [hist EXCEPT !.init = xy, !.W = MakeWeightMatrix(Q)]
    /\ i' = 0
    /\ pc' = "loop"
    /\ UNCHANGED <<Q, W, op, args, ret>>

\* The loop test passed: solve for X.
ALSSolveX ==
    /\ op = "ALS" /\ pc = "loop"
    /\ LoopContinues(i, args.iterations)
    /\ InRange(Y)
    /\ LET s == SolveForX(Q, Y, args.n_factors)
       IN  /\ X' = s.X
           /\ pc' = IF s.panic THEN "panic" ELSE "solveY"
           /\ hist' = [hist EXCEPT
                 !.init    = Nil,
                 !.xsolves = @ + 1,
                 !.after   = IF hist.failed THEN @ + 1 ELSE @,
                 !.failed  = @ \/ Unsolvable(s.system)]
    /\ UNCHANGED <<Q, W, op, args, ret, Y, i>>

\* Now solve for Y; i++.
ALSSolveY ==
    /\ op = "ALS" /\ pc = "solveY"
    /\ InRange(X)
    /\ LET s == SolveForY(Q, X, args.n_factors)
       IN  /\ Y' = s.Y
           /\ X' = s.X
           /\ pc' = IF s.panic THEN "panic" ELSE "loop"
           /\ i' = IF s.panic THEN i ELSE i + 1
           /\ hist' = [hist EXCEPT
                 !.ysolves = @ + 1,
                 !.after   = IF hist.failed THEN @ + 1 ELSE @,
                 !.failed  = @ \/ Unsolvable(s.system)]
    /\ UNCHANGED <<Q, W, op, args, ret>>

\* The loop test failed: Q_hat := X * Y; return Q_hat.
ALSReturn ==
    /\ op = "ALS" /\ pc = "loop"
    /\ ~LoopContinues(i, args.iterations)
    /\ ret' = Reconstruct(X, Y)
    /\ pc' = "done"
    /\ UNCHANGED <<Q, W, op, args, X, Y, i, hist>>

ALSStep == ALSEnter \/ ALSSolveX \/ ALSSolveY \/ ALSReturn

\* The caller's next call, on Q and W as the calls before left them.
CallerChoice(o, a) ==
    \/ o = "MakeWeightMatrix" /\ a \in MaskArgs
    \/ o = "GetError" /\ a \in GetErrorArgs({1})
    \/ o = "Predict" /\ a \in PredictArgs
    \/ o = "ALS" /\ a \in ALSArgs(0..1, {1})

Again ==
    /\ pc = "done" /\ hist.calls < MaxCalls
    /\ \E o \in {"MakeWeightMatrix", "GetError", "Predict", "ALS"} :
          /\ op' = o
          /\ \E a \in (CASE o = "MakeWeightMatrix" -> MaskArgs
                         [] o = "GetError" -> GetErrorArgs({1})
                         [] o = "Predict" -> PredictArgs
                         [] o = "ALS" -> ALSArgs(0..1, {1})) : args' = a
    /\ pc' = "call" /\ ret' = Nil
    /\ X' = Nil /\ Y' = Nil /\ i' = 0
    /\ hist' = [NoHist EXCEPT !.calls = hist.calls + 1]
    /\ UNCHANGED <<Q, W>>

-----------------------------------------------------------------------------
(* Specifications *)

\* MakeWeightMatrix on every small matrix of ratings.
InitMask ==
    /\ Q \in Matrices(MaskVals) /\ W = Nil
    /\ op = "MakeWeightMatrix" /\ args \in MaskArgs
    /\ Idle

SpecMask == InitMask /\ [][CallMakeWeightMatrix]_vars

\* GetError on every small W, Q, X, Y of compatible shapes, W binary.
InitError ==
    /\ Q \in Matrices(ErrorVals)
    /\ W \in MatricesOf({F64(0), F64(1)}, Q.rows, Q.cols)
    /\ op = "GetError" /\ args \in GetErrorArgs(Dims)
    /\ Idle

SpecError == InitError /\ [][CallGetError]_vars

\* Predict on every small Q, its mask and a Q_hat of Q's shape.
InitPredict ==
    /\ Q \in Matrices(ScoreVals) /\ W = MakeWeightMatrix(Q)
    /\ op = "Predict" /\ args \in PredictArgs
    /\ Idle

SpecPredict == InitPredict /\ [][CallPredict]_vars

\* argmax on every slice of up to MaxLen elements.
InitArgmax ==
    /\ Q = Nil /\ W = Nil
    /\ op = "argmax"
    /\ args \in UNION { [1..n -> SliceVals] : n \in 0..MaxLen }
    /\ Idle

SpecArgmax == InitArgmax /\ [][Callargmax]_vars

\* MatrixSolver on every small k x k system and k x m right-hand side.
InitSolver ==
    /\ Q = Nil /\ W = Nil
    /\ op = "MatrixSolver"
    /\ args \in UNION { { [mat |-> a, outcome |-> b] :
                            a \in MatricesOf(SolverVals, k, k),
                            b \in MatricesOf(SolverVals, k, m) } :
                        k \in Dims, m \in Dims }
    /\ Idle

SpecSolver == InitSolver /\ [][CallMatrixSolver]_vars

\* ALS on every small rating matrix, rank and iteration budget.
InitALS ==
    /\ Q \in Matrices(RatingVals) /\ W = Nil
    /\ op = "ALS" /\ args \in ALSArgs(0..MaxIter, Dims)
    /\ Idle

SpecALS == InitALS /\ [][ALSStep]_vars

\* A caller that holds Q and its mask W and makes up to MaxCalls calls.
InitCalls ==
    /\ Q \in Matrices(CallVals) /\ W = MakeWeightMatrix(Q)
    /\ \E o \in {"MakeWeightMatrix", "GetError", "Predict", "ALS"} :
          op = o /\ CallerChoice(o, args)
    /\ Idle

NextCalls ==
    \/ CallMakeWeightMatrix
    \/ CallGetError
    \/ CallPredict
    \/ ALSEnter
    \/ ALSSolveX
    \/ ALSSolveY
    \/ ALSReturn
    \/ Again

SpecCalls == InitCalls /\ [][NextCalls]_vars

Init == InitCalls

Next == NextCalls

Spec == SpecCalls

-----------------------------------------------------------------------------
(* Claims *)

Missing(q) == q = F64(0) \/ IsNaN(q)

Cells(A) == (0..(A.rows - 1)) \X (0..(A.cols - 1))

\* C1: for every rating matrix Q, MakeWeightMatrix(Q) has Q's shape, and its
\* entry (i, j) is 0 exactly when Q[i][j] is missing (zero or NaN) and 1
\* otherwise.
Thm_C1 ==
    (op = "MakeWeightMatrix" /\ pc = "done") =>
        /\ ret.rows = args.Q.rows /\ ret.cols = args.Q.cols
        /\ Len(ret.elements) = ret.rows * ret.cols
        /\ \A rc \in Cells(args.Q) :
              LET q == Get(args.Q, rc[1], rc[2])
                  w == Get(ret, rc[1], rc[2])
              IN  /\ w = F64(0) <=> Missing(q)
                  /\ ~Missing(q) => w = F64(1)

\* A mask has been built for a matrix that is not square and holds a NaN, a
\* zero and a negative rating.
Wit_C1 ==
    /\ op = "MakeWeightMatrix" /\ pc = "done"
    /\ args.Q.rows # args.Q.cols
    /\ \E n \in DOMAIN args.Q.elements : IsNaN(args.Q.elements[n])
    /\ \E n \in DOMAIN args.Q.elements :
          args.Q.elements[n] = F64(-1) /\ ret.elements[n] = F64(1)

Rank == args.n_factors

Budget == args.iterations

\* The factors and the reconstruction have the shapes the rating matrix and
\* the rank call for.
ShapesFit ==
    /\ X.rows = Q.rows /\ X.cols = Rank
    /\ Y.rows = Rank /\ Y.cols = Q.cols
    /\ pc = "done" => (ret.rows = Q.rows /\ ret.cols = Q.cols)

\* C2: for every Q (rows x cols), rank k >= 1 and budget T >= 0, at the end
\* of every iteration and when ALS has finished, X is rows x k and Y is
\* k x cols, and the reconstruction returned is rows x cols.
Claim_C2 ==
    (op = "ALS" /\ (pc = "done" \/ (pc = "loop" /\ i > 0))) => ShapesFit

\* C3: after every call of MakeWeightMatrix, ALS, GetError and Predict, in any
\* sequence, the caller's Q and W hold the entries they held when the call
\* was made.
Claim_C3 == pc = "done" => (Q = args.Q /\ W = args.W)

Sq(a) == Mul(a, a)

\* The sum over all entries of (W * (Q - X Y))^2.
WeightedSquaredError(Wm, Qm, Xm, Ym) ==
    LET Qh == TimesDense(Xm, Ym).C
    IN  SumFrom([n \in 1..Len(Qm.elements) |->
                    Sq(Mul(Wm.elements[n],
                           Sub(Qm.elements[n], Qh.elements[n])))], 1, F64(0))

\* The sum of (Q - X Y)^2 over the entries W marks observed.
ObservedSquaredError(Wm, Qm, Xm, Ym) ==
    LET Qh == TimesDense(Xm, Ym).C
    IN  SumFrom([n \in 1..Len(Qm.elements) |->
                    IF Wm.elements[n] = F64(1)
                    THEN Sq(Sub(Qm.elements[n], Qh.elements[n]))
                    ELSE F64(0)], 1, F64(0))

\* C4: for W, Q, X, Y of compatible shapes, W binary, GetError returns the
\* sum over all entries of (W[i][j] * (Q[i][j] - (X Y)[i][j]))^2, which is
\* the squared reconstruction error summed over the observed entries only,
\* and is never negative.
Claim_C4 ==
    (op = "GetError" /\ pc = "done") =>
        /\ ret = WeightedSquaredError(args.W, args.Q, args.X, args.Y)
        /\ ret = ObservedSquaredError(args.W, args.Q, args.X, args.Y)
        /\ ~Less(ret, F64(0))

\* C5: once a linear solve has failed (a singular system, or one that is not
\* made of numbers), the fit stops there: no further solve is run and no
\* reconstruction is returned.
Claim_C5 ==
    (op = "ALS" /\ hist.failed) => (hist.after = 0 /\ pc # "done")

\* The rank is one the rating matrix admits: 1 <= k <= min(rows, cols).
RankFits == Rank >= 1 /\ Rank <= Q.rows /\ Rank <= Q.cols

\* C6: when the rank does not fit Q's dimensions, ALS reports it before any
\* computation: no factor is initialised, no solve is run, nothing is
\* returned.
Claim_C6 ==
    (op = "ALS" /\ ~RankFits) =>
        /\ X = Nil /\ Y = Nil
        /\ hist.xsolves = 0 /\ hist.ysolves = 0
        /\ pc \notin {"solveY", "done"}

\* The least and the greatest element of a matrix.
GlobalMin(A) == MinFrom(A.elements, 2, A.elements[1])

GlobalMax(A) == MaxFrom(A.elements, 2, A.elements[1])

\* The adjusted scores: Q_hat minus its global minimum, rescaled so that its
\* maximum is Q's maximum rating, minus W scaled by that maximum rating.
AdjustedScores(Wm, Qm, Q_hat) ==
    LET shifted == MakeDenseMatrix([n \in 1..Len(Q_hat.elements) |->
                       Sub(Q_hat.elements[n], GlobalMin(Q_hat))],
                       Q_hat.rows, Q_hat.cols)
        top     == GlobalMax(Qm)
        scaled  == Scale(shifted, Div(top, GlobalMax(shifted)))
    IN  SubtractDense(scaled, Scale(Wm, top)).A

\* C7: for every user row i, the index Predict returns for i is the argmax of
\* row i of the adjusted scores.
Claim_C7 ==
    (op = "Predict" /\ pc = "done") =>
        \A r \in 1..args.Q.rows :
            ret[r] = argmax(rowSlice(
                        AdjustedScores(args.W, args.Q, args.Q_hat), r - 1))

\* The positions (from 1) of s that hold a value greater than 0.
Positive(s) == { n \in 1..Len(s) : Greater(s[n], F64(0)) }

\* C8: argmax returns the lowest index holding the greatest of the values
\* greater than 0, and index 0 when no value is greater than 0 (an all-zero,
\* all-negative or empty slice).
Thm_C8 ==
    (op = "argmax" /\ pc = "done") =>
        IF Positive(args) = {} THEN ret = 0
        ELSE /\ ret + 1 \in Positive(args)
             /\ \A n \in Positive(args) : ~Greater(args[n], args[ret + 1])
             /\ \A n \in 1..ret : args[n] # args[ret + 1]

\* argmax has answered for a slice whose greatest value stands at two
\* positions, after a smaller positive one: it returned the first of the two.
Wit_C8 ==
    /\ op = "argmax" /\ pc = "done"
    /\ Len(args) = 3 /\ args[1] = F64(1) /\ args[2] = F64(2) /\ args[3] = F64(2)
    /\ ret = 1

\* The normal equations of the second half-step, with Xf the freshly updated
\* X (k x rows):  (Xf Xf^T + lambda I) Y = Xf Q.
NormalEquationsY(Xf, Ym, Qm) ==
    TimesDense(AddDense(TimesDense(Xf, Transpose(Xf)).C, ScaledEye(Xf.rows)).A,
               Ym).C = TimesDense(Xf, Qm).C

Claim_C10 ==
    (op = "MatrixSolver" /\ pc \in {"done", "panic"}
        /\ ~Unsolvable(args.mat)) =>
        /\ pc = "done"
        /\ ret.solves = args.outcome.cols
        /\ ret.M.rows = args.mat.rows /\ ret.M.cols = args.outcome.cols
        /\ TimesDense(args.mat, ret.M).C = args.outcome

=============================================================================
